---- MODULE Spec2Model ----
(***************************************************************************)
(* rewrite_pcap of src/pcap_rewrite.py as a state machine.                 *)
(*                                                                         *)
(* One run of rewrite_pcap is one behaviour.  pc is the position in the   *)
(* function; every external tool invocation (tcpprep, tshark, tcprewrite) *)
(* is one step whose exit status is chosen by the environment.            *)
(*                                                                         *)
(* Addresses are scaled down.  A new address (ipaddress object) is a      *)
(* number in 0 .. 2^AddrBits - 1 (IPv4: AddrBits = 32).  An original      *)
(* address is the text tshark printed; it is modelled by the number of    *)
(* its last octet and compared, as the code compares it, as a string of   *)
(* decimal digits.                                                         *)
(***************************************************************************)
EXTENDS Integers, Sequences, FiniteSets, TLC

\* ------------------------------------------------------------------ bounds
\* Width of a new address in bits (32 for IPv4).
AddrBits == 5

\* ------------------------------------------------------- program constants
\* network_address + 11 (lines 73-74, 103, 108).
FirstHostOffset == 11
\* Largest value of an octet that ipaddress.ip_address accepts (lines 91-92).
MaxOctet == 255
\* Number of two-digit groups and of delimiters in the MAC pattern (line 43).
MacGroups == 6

MaxAddr == 2^AddrBits - 1

\* ------------------------------------------------------------- file names
\* A file name is <<kind, processed_count, rewrite_step>>.
pcap_file == <<"pcap", 0, 0>>
\* line 52
tcpprep_cache_file == <<"cache", 0, 0>>
\* line 53
rewritten_pcap_file == <<"rewritten", 0, 0>>
\* line 54
pairs_file == <<"pairs", 0, 0>>
\* lines 141, 161, 179, 197
\* Mutant of TempFile: the step counter is left out of the name.
TempFile_NoStep(count, step) == <<"temp", count, 0>>

TempFile(count, step) == <<"temp", count, step>>
\* None, and the value of a file variable that is not bound yet
NoFile == <<"none", 0, 0>>

\* ------------------------------------------------------------ MAC strings
\* A MAC string is a sequence of tokens: "hh" two hex digits, "h" one hex
\* digit, ":" and "-" the delimiters.
MacColon == <<"hh", ":", "hh", ":", "hh", ":", "hh", ":", "hh", ":", "hh">>
MacHyphen == <<"hh", "-", "hh", "-", "hh", "-", "hh", "-", "hh", "-", "hh">>
MacShort == <<"hh", ":", "hh", ":", "hh">>
MacBadGroup == <<"hh", ":", "hh", ":", "h", ":", "hh", ":", "hh", ":", "hh">>

ServerMacs == {MacColon, MacShort}
ClientMacs == {MacHyphen, MacBadGroup}

\* Mutant of MacMatches: the number of groups is not checked.
MacMatches_AnyLength(mac) ==
    \A i \in 1..Len(mac) :
        IF i % 2 = 1 THEN mac[i] = "hh" ELSE mac[i] \in {":", "-"}

\* re.match(r"^([0-9A-Fa-f]{2}[:-]){5}([0-9A-Fa-f]{2})$", mac), line 43
MacMatches(mac) ==
    /\ Len(mac) = 2 * MacGroups - 1
    /\ \A i \in 1..Len(mac) :
          IF i % 2 = 1 THEN mac[i] = "hh" ELSE mac[i] \in {":", "-"}

\* ---------------------------------------------------------------- subnets
\* A subnet string "addr/plen" is [addr, plen].
SubnetParses(s) == s.addr \in 0..MaxAddr /\ s.plen \in 0..AddrBits

SubnetSize(s) == 2^(AddrBits - s.plen)

\* ipaddress.ip_network(s, strict=False) masks the host bits (lines 41-42).
NetworkAddress(s) == s.addr - (s.addr % SubnetSize(s))

BroadcastAddress(s) == NetworkAddress(s) + SubnetSize(s) - 1

\* `ip in subnet', lines 102 and 107
InSubnet(ip, s) == NetworkAddress(s) <= ip /\ ip <= BroadcastAddress(s)

\* 16 addresses from 0, given with host bits set: 11 .. 15 are allocated
Subnet16 == [addr |-> 3, plen |-> AddrBits - 4]
\* 8 addresses: network + 11 is outside of the subnet
Subnet8 == [addr |-> 8, plen |-> AddrBits - 3]
\* the whole address space
SubnetAll == [addr |-> 0, plen |-> 0]
\* the last 8 addresses: network + 11 is past the largest address
SubnetTop == [addr |-> MaxAddr - 7, plen |-> AddrBits - 3]
\* the last 16 addresses: the cursor runs past the largest address
SubnetTop16 == [addr |-> MaxAddr - 15, plen |-> AddrBits - 4]
\* a prefix length that does not parse
SubnetBad == [addr |-> 0, plen |-> AddrBits + 1]

SubnetStrs == {Subnet16, Subnet8, SubnetAll, SubnetTop, SubnetTop16, SubnetBad}

Modes == {"first", "only", "none"}

\* tcpprep_auto_mode in ("first", "only"), line 60
PrePassEnabled(mode) == mode \in {"first", "only"}

\* Mutant of PrePassFailureFatal: the two modes are confused.
PrePassFailureFatal_First(mode) == mode = "first"

\* tcpprep_auto_mode == "only", line 67
PrePassFailureFatal(mode) == mode = "only"

\* ------------------------------------------------------ original addresses
\* Decimal digits of n, most significant first: the text of an address.
RECURSIVE Digits(_)
Digits(n) == IF n < 10 THEN <<n>> ELSE Append(Digits(n \div 10), n % 10)

\* s < t for two strings, as Python compares str.
RECURSIVE StrLess(_, _)
StrLess(s, t) ==
    IF t = <<>> THEN FALSE
    ELSE IF s = <<>> THEN TRUE
    ELSE IF Head(s) # Head(t) THEN Head(s) < Head(t)
    ELSE StrLess(Tail(s), Tail(t))

\* a > b on the texts of two addresses, line 135
TextGreater(a, b) == StrLess(Digits(b), Digits(a))

\* ipaddress.ip_address(token) does not raise, lines 90-92
IsValidAddress(token) == token <= MaxOctet

\* Mutant of HasTwoTokens: extra tokens are tolerated.
HasTwoTokens_AtLeast(parts) == Len(parts) >= 2

\* len(parts) != 2 is skipped, line 85
HasTwoTokens(parts) == Len(parts) = 2

\* Mutant of PairKey: the two addresses are not sorted.
PairKey_Unsorted(src_ip, dst_ip) == <<src_ip, dst_ip>>

\* tuple(sorted((src_ip, dst_ip))), line 97
PairKey(src_ip, dst_ip) ==
    IF TextGreater(src_ip, dst_ip) THEN <<dst_ip, src_ip>> ELSE <<src_ip, dst_ip>>

\* The lines tshark can print, in the order of the packets of the capture:
\* each line is the sequence of its whitespace-separated tokens.  The output
\* of one run is any subsequence of these lines.
TsharkLines ==
    << <<9, 10>>, <<10, 9>>, <<>>, <<9>>, <<5, 9>>, <<300, 5>>, <<10, 5>>,
       <<5, 10, 9>>, <<5, 5>>, <<9, 5>>, <<9, 9>>, <<10, 10>> >>

\* ------------------------------------------------------------------ state
VARIABLES
    pc,                  \* position in rewrite_pcap
    server_subnet_str,   \* arguments of rewrite_pcap
    client_subnet_str,
    server_mac,
    client_mac,
    tcpprep_auto_mode,
    files,               \* names of the files that exist
    invocations,         \* external tool invocations issued so far
    pos,                 \* index in TsharkLines of the line being read
    line,                \* tokens of the line being read (parts)
    server_client_pairs, \* the registry, in insertion order
    next_server_ip,
    next_client_ip,
    warnings,            \* subnets reported exhausted
    current_input_file,
    processed_count,
    rewrite_step,
    pair_idx,            \* position of the rewrite loop in the registry
    pass,                \* next tcprewrite pass of the pair, 1 .. 4
    result               \* value returned

vars == <<pc, server_subnet_str, client_subnet_str, server_mac, client_mac,
          tcpprep_auto_mode, files, invocations, pos, line,
          server_client_pairs, next_server_ip, next_client_ip, warnings,
          current_input_file, processed_count, rewrite_step, pair_idx, pass,
          result>>

args == <<server_subnet_str, client_subnet_str, server_mac, client_mac,
          tcpprep_auto_mode>>

discovery == <<pos, line, server_client_pairs, next_server_ip, next_client_ip,
               warnings>>

pipeline == <<current_input_file, processed_count, rewrite_step, pair_idx, pass>>

Terminal == {"Success", "Failed", "Crashed"}

\* Files that may exist before the run: the input capture, the output of an
\* earlier run and the cache file of an earlier run.
Init ==
    /\ pc = "Validating"
    /\ server_subnet_str \in SubnetStrs
    /\ client_subnet_str \in SubnetStrs
    /\ server_mac \in ServerMacs
    /\ client_mac \in ClientMacs
    /\ tcpprep_auto_mode \in Modes
    /\ files \in SUBSET {pcap_file, rewritten_pcap_file, tcpprep_cache_file}
    /\ invocations = <<>>
    /\ pos = 0
    /\ line = <<>>
    /\ server_client_pairs = <<>>
    /\ next_server_ip = 0
    /\ next_client_ip = 0
    /\ warnings = {}
    /\ current_input_file = NoFile
    /\ processed_count = 0
    /\ rewrite_step = 0
    /\ pair_idx = 0
    /\ pass = 0
    /\ result = NoFile

\* One external tool invocation.
Invocation(tool, infile, outfile, field, orig, new, cache, ok) ==
    [tool |-> tool, infile |-> infile, outfile |-> outfile, field |-> field,
     orig |-> orig, new |-> new, cache |-> cache, ok |-> ok]

\* return None
Fail ==
    /\ pc' = "Failed"
    /\ result' = NoFile

\* Mutant of RemoveStale: the output of an earlier run is left in place.
RemoveStale_Keeps(fs) == fs

\* if os.path.exists(rewritten_pcap_file): os.remove(...), lines 56-57
RemoveStale(fs) == fs \ {rewritten_pcap_file}

\* Input validation and file path setup, lines 26-57.
Validate ==
    /\ pc = "Validating"
    /\ IF \/ pcap_file \notin files
          \/ ~SubnetParses(server_subnet_str)
          \/ ~SubnetParses(client_subnet_str)
          \/ ~MacMatches(server_mac)
          \/ ~MacMatches(client_mac)
       THEN /\ Fail
            /\ UNCHANGED files
       ELSE /\ files' = RemoveStale(files)
            /\ pc' = IF PrePassEnabled(tcpprep_auto_mode) THEN "PrePass" ELSE "Tshark"
            /\ UNCHANGED result
    /\ UNCHANGED <<args, invocations, discovery, pipeline>>

\* The tcpprep invocation, lines 60-68.
PrePass ==
    /\ pc = "PrePass"
    /\ \E ok \in BOOLEAN :
          /\ invocations' = Append(invocations,
                 Invocation("tcpprep", pcap_file, tcpprep_cache_file, "none", 0, 0,
                            NoFile, ok))
          /\ files' = IF ok THEN files \cup {tcpprep_cache_file} ELSE files
          /\ IF ~ok /\ PrePassFailureFatal(tcpprep_auto_mode)
             THEN Fail
             ELSE pc' = "Tshark" /\ UNCHANGED result
    /\ UNCHANGED <<args, discovery, pipeline>>

\* IPv4Address + int raises AddressValueError past the largest address.
Overflows(ip) == ip > MaxAddr

\* Mutant of Tshark: a failure of tshark is not fatal.
Tshark_IgnoreFailure ==
    /\ pc = "Tshark"
    /\ LET first_server == NetworkAddress(server_subnet_str) + FirstHostOffset
           first_client == NetworkAddress(client_subnet_str) + FirstHostOffset
       IN  IF Overflows(first_server) \/ Overflows(first_client)
           THEN /\ pc' = "Crashed"
                /\ next_server_ip' =
                       IF Overflows(first_server) THEN next_server_ip ELSE first_server
                /\ UNCHANGED <<invocations, next_client_ip, result>>
           ELSE /\ next_server_ip' = first_server
                /\ next_client_ip' = first_client
                /\ \E ok \in BOOLEAN :
                      /\ invocations' = Append(invocations,
                             Invocation("tshark", pcap_file, NoFile, "none", 0, 0,
                                        NoFile, ok))
                      /\ pc' = "Discovering"
                      /\ UNCHANGED result
    /\ UNCHANGED <<args, files, pos, line, server_client_pairs, warnings, pipeline>>

\* The cursors and the tshark invocation, lines 71-79 and 112-114.
Tshark ==
    /\ pc = "Tshark"
    /\ LET first_server == NetworkAddress(server_subnet_str) + FirstHostOffset
           first_client == NetworkAddress(client_subnet_str) + FirstHostOffset
       IN  IF Overflows(first_server) \/ Overflows(first_client)
           THEN /\ pc' = "Crashed"
                /\ next_server_ip' =
                       IF Overflows(first_server) THEN next_server_ip ELSE first_server
                /\ UNCHANGED <<invocations, next_client_ip, result>>
           ELSE /\ next_server_ip' = first_server
                /\ next_client_ip' = first_client
                /\ \E ok \in BOOLEAN :
                      /\ invocations' = Append(invocations,
                             Invocation("tshark", pcap_file, NoFile, "none", 0, 0,
                                        NoFile, ok))
                      /\ IF ok THEN pc' = "Discovering" /\ UNCHANGED result
                               ELSE Fail
    /\ UNCHANGED <<args, files, pos, line, server_client_pairs, warnings, pipeline>>

Keys == {server_client_pairs[i].key : i \in 1..Len(server_client_pairs)}

\* Mutant of Advance: the increment is lost.
Advance_Stuck(next_ip, subnet) ==
    IF Overflows(next_ip + 1)
    THEN [raised |-> TRUE, next |-> next_ip, warn |-> FALSE]
    ELSE [raised |-> FALSE, next |-> next_ip, warn |-> FALSE]

\* The cursor after `next_ip += 1' and the check that follows it,
\* lines 101-105 and 106-110.
Advance(next_ip, subnet) ==
    IF Overflows(next_ip + 1)
    THEN [raised |-> TRUE, next |-> next_ip, warn |-> FALSE]
    ELSE IF ~InSubnet(next_ip + 1, subnet)
    THEN [raised |-> FALSE,
          next |-> NetworkAddress(subnet) + FirstHostOffset,
          warn |-> NetworkAddress(subnet) + FirstHostOffset >= BroadcastAddress(subnet)]
    ELSE [raised |-> FALSE, next |-> next_ip + 1, warn |-> FALSE]

\* Mutant of NewEntry: the entry is created already processed.
NewEntry_Processed(key) ==
    [key |-> key, server |-> next_server_ip, client |-> next_client_ip,
     processed |-> TRUE]

\* A new registry entry, line 100.
NewEntry(key) ==
    [key |-> key, server |-> next_server_ip, client |-> next_client_ip,
     processed |-> FALSE]

\* One iteration of the loop over the lines of tshark, lines 81-110.
ReadLine ==
    /\ pc = "Discovering"
    /\ \E j \in (pos + 1)..Len(TsharkLines) :
          LET parts == TsharkLines[j]
              skipped == \/ parts = <<>>
                         \/ ~HasTwoTokens(parts)
                         \/ \E i \in 1..Len(parts) : ~IsValidAddress(parts[i])
          IN  /\ pos' = j
              /\ line' = parts
              /\ IF skipped \/ PairKey(parts[1], parts[2]) \in Keys
                 THEN UNCHANGED <<pc, server_client_pairs, next_server_ip,
                                  next_client_ip, warnings>>
                 ELSE LET s == Advance(next_server_ip, server_subnet_str)
                          c == Advance(next_client_ip, client_subnet_str)
                      IN  /\ server_client_pairs' =
                                 Append(server_client_pairs,
                                        NewEntry(PairKey(parts[1], parts[2])))
                          /\ next_server_ip' = s.next
                          /\ next_client_ip' = IF s.raised THEN next_client_ip ELSE c.next
                          /\ warnings' = warnings
                                 \cup (IF s.warn THEN {"server"} ELSE {})
                                 \cup (IF ~s.raised /\ c.warn THEN {"client"} ELSE {})
                          /\ pc' = IF s.raised \/ c.raised THEN "Crashed" ELSE pc
    /\ UNCHANGED <<args, files, invocations, pipeline, result>>

\* The first registry entry at or after i that is not processed, lines 130-132.
RECURSIVE NextUnprocessed(_, _)
NextUnprocessed(pairs, i) ==
    IF i > Len(pairs) \/ ~pairs[i].processed THEN i
    ELSE NextUnprocessed(pairs, i + 1)

\* Mutant of Persist: a failure to write the registry file is fatal.
Persist_Aborts ==
    /\ pc = "Discovering"
    /\ \E ok \in BOOLEAN :
          /\ files' = IF ok THEN files \cup {pairs_file} ELSE files
          /\ IF ok THEN pc' = "Rewriting" /\ UNCHANGED result ELSE Fail
    /\ current_input_file' = pcap_file
    /\ processed_count' = 0
    /\ rewrite_step' = 0
    /\ pair_idx' = NextUnprocessed(server_client_pairs, 1)
    /\ pass' = 1
    /\ UNCHANGED <<args, invocations, discovery>>

\* The end of the tshark output, the registry dump and the set-up of the
\* rewrite loop, lines 116-127.
Persist ==
    /\ pc = "Discovering"
    /\ \E ok \in BOOLEAN :
          files' = IF ok THEN files \cup {pairs_file} ELSE files
    /\ current_input_file' = pcap_file
    /\ processed_count' = 0
    /\ rewrite_step' = 0
    /\ pair_idx' = NextUnprocessed(server_client_pairs, 1)
    /\ pass' = 1
    /\ pc' = "Rewriting"
    /\ UNCHANGED <<args, invocations, discovery, result>>

\* The four tcprewrite passes of a pair: the address map option and the
\* role of the address it maps, lines 150, 170, 188 and 206.
Passes ==
    << [field |-> "src", role |-> "server"],
       [field |-> "dst", role |-> "client"],
       [field |-> "src", role |-> "client"],
       [field |-> "dst", role |-> "server"] >>

\* original_server_ip and original_client_ip of a registry key, lines 134-136.
OriginalServer(key) == IF TextGreater(key[1], key[2]) THEN key[2] ELSE key[1]
OriginalClient(key) == IF TextGreater(key[1], key[2]) THEN key[1] ELSE key[2]

\* Mutant of DeletesInput: the first pass of a pair never deletes its input.
DeletesInput_SkipFirst(p, input) == p # 1

\* The input of a pass is deleted after it: always for passes 2 to 4, and for
\* pass 1 unless it is the input capture, lines 155-156, 175, 193, 211.
DeletesInput(p, input) == p # 1 \/ input # pcap_file

\* Mutant of RewriteAborts: the input of the failed pass is cleaned up.
RewriteAborts_CleansUp(temp_file) ==
    /\ Fail
    /\ files' = files \ {current_input_file}
    /\ UNCHANGED <<current_input_file, processed_count, pair_idx, pass,
                   server_client_pairs>>

\* A tcprewrite that exits non-zero: `return None' with nothing cleaned up,
\* lines 217-219.  The tool may have left a part of its output file.
RewriteAborts(temp_file) ==
    /\ Fail
    /\ files' \in {files, files \cup {temp_file}}
    /\ UNCHANGED <<current_input_file, processed_count, pair_idx, pass,
                   server_client_pairs>>

\* One tcprewrite invocation and the clean-up after it, lines 129-219.
RewritePass ==
    /\ pc = "Rewriting"
    /\ pair_idx <= Len(server_client_pairs)
    /\ LET entry == server_client_pairs[pair_idx]
           role == Passes[pass].role
           orig == IF role = "server" THEN OriginalServer(entry.key)
                                      ELSE OriginalClient(entry.key)
           new == IF role = "server" THEN entry.server ELSE entry.client
           temp_file == TempFile(processed_count, rewrite_step)
       IN  /\ rewrite_step' = rewrite_step + 1
           /\ \E ok \in BOOLEAN :
                 /\ invocations' = Append(invocations,
                        Invocation("tcprewrite", current_input_file, temp_file,
                                   Passes[pass].field, orig, new,
                                   tcpprep_cache_file, ok))
                 /\ IF ~ok
                    THEN RewriteAborts(temp_file)
                    ELSE /\ files' =
                                IF DeletesInput(pass, current_input_file)
                                THEN (files \cup {temp_file}) \ {current_input_file}
                                ELSE files \cup {temp_file}
                         /\ current_input_file' = temp_file
                         /\ UNCHANGED result
                         /\ IF pass < Len(Passes)
                            THEN /\ pass' = pass + 1
                                 /\ UNCHANGED <<pc, processed_count, pair_idx,
                                                server_client_pairs>>
                            ELSE /\ server_client_pairs' =
                                        [server_client_pairs EXCEPT
                                            ![pair_idx].processed = TRUE]
                                 /\ processed_count' = processed_count + 1
                                 /\ pair_idx' =
                                        NextUnprocessed(server_client_pairs', pair_idx + 1)
                                 /\ pass' = 1
                                 /\ UNCHANGED pc
    /\ UNCHANGED <<args, pos, line, next_server_ip, next_client_ip, warnings>>

\* The rename of the last file to the output name, lines 221-229.
Finalize ==
    /\ pc = "Rewriting"
    /\ pair_idx > Len(server_client_pairs)
    /\ IF current_input_file \in files
       THEN /\ files' = (files \ {current_input_file}) \cup {rewritten_pcap_file}
            /\ result' = rewritten_pcap_file
            /\ pc' = "Success"
       ELSE /\ Fail
            /\ UNCHANGED files
    /\ UNCHANGED <<args, invocations, discovery, pipeline>>

Next ==
    \/ Validate
    \/ PrePass
    \/ Tshark
    \/ ReadLine
    \/ Persist
    \/ RewritePass
    \/ Finalize

Spec == Init /\ [][Next]_vars

\* ------------------------------------------------------------------ claims
Pairs == server_client_pairs

N == Len(server_client_pairs)

RewriteInvocations == SelectSeq(invocations, LAMBDA v : v.tool = "tcprewrite")

TsharkFailed == \E i \in 1..Len(invocations) :
                   invocations[i].tool = "tshark" /\ ~invocations[i].ok

TsharkSucceeded == \E i \in 1..Len(invocations) :
                      invocations[i].tool = "tshark" /\ invocations[i].ok

\* C1: the input capture, once it exists, is never deleted, renamed or
\* overwritten by any step of the run, whatever the number of pairs.
C1_InputPreserved == [][(pcap_file \in files) => (pcap_file \in files')]_vars

\* C2: the k-th rewrite invocation of a pair maps, in this order: the
\* original server address as source, the original server address as
\* destination, the original client address as source, the original client
\* address as destination, each to the new address of the same role.
C2_ClaimedPasses ==
    << [field |-> "src", role |-> "server"],
       [field |-> "dst", role |-> "server"],
       [field |-> "src", role |-> "client"],
       [field |-> "dst", role |-> "client"] >>

C2_PassOrder ==
    \A k \in 1..Len(RewriteInvocations) :
        LET v == RewriteInvocations[k]
            entry == Pairs[((k - 1) \div 4) + 1]
            claimed == C2_ClaimedPasses[((k - 1) % 4) + 1]
            lo == IF TextGreater(entry.key[1], entry.key[2])
                  THEN entry.key[2] ELSE entry.key[1]
            hi == IF TextGreater(entry.key[1], entry.key[2])
                  THEN entry.key[1] ELSE entry.key[2]
        IN  /\ v.field = claimed.field
            /\ v.orig = (IF claimed.role = "server" THEN lo ELSE hi)
            /\ v.new = (IF claimed.role = "server" THEN entry.server ELSE entry.client)

\* C3: no registry entry holds the network address or the broadcast address
\* of its subnet as new server or new client address.
C3_NoNetworkOrBroadcast ==
    \A i \in 1..N :
        /\ Pairs[i].server # NetworkAddress(server_subnet_str)
        /\ Pairs[i].server # BroadcastAddress(server_subnet_str)
        /\ Pairs[i].client # NetworkAddress(client_subnet_str)
        /\ Pairs[i].client # BroadcastAddress(client_subnet_str)

\* C4: every new server address lies inside the server subnet and every new
\* client address inside the client subnet, for every subnet that parses.
C4_InsideSubnet ==
    \A i \in 1..N :
        /\ NetworkAddress(server_subnet_str) <= Pairs[i].server
        /\ Pairs[i].server <= BroadcastAddress(server_subnet_str)
        /\ NetworkAddress(client_subnet_str) <= Pairs[i].client
        /\ Pairs[i].client <= BroadcastAddress(client_subnet_str)

\* C5 as stated: when each subnet holds at least N + 11 addresses, the N new
\* server addresses are pairwise distinct, so are the N new client addresses,
\* and neither cursor has wrapped (stated of the runs in which the discovery
\* started and raised no exception).
C5_Capacity ==
    /\ server_subnet_str.plen <= AddrBits
    /\ client_subnet_str.plen <= AddrBits
    /\ SubnetSize(server_subnet_str) >= N + FirstHostOffset
    /\ SubnetSize(client_subnet_str) >= N + FirstHostOffset

C5_Distinct ==
    \A i, j \in 1..N :
        i # j => /\ Pairs[i].server # Pairs[j].server
                 /\ Pairs[i].client # Pairs[j].client

C5_DistinctAndNoWrap ==
    (C5_Capacity /\ TsharkSucceeded /\ pc # "Crashed") =>
        /\ C5_Distinct
        /\ next_server_ip = NetworkAddress(server_subnet_str) + FirstHostOffset + N
        /\ next_client_ip = NetworkAddress(client_subnet_str) + FirstHostOffset + N

\* C5 amended: when each subnet holds at least N + 11 addresses, the N new
\* server addresses are pairwise distinct and so are the N new client
\* addresses: the i-th pair gets network + 11 + (i - 1) in both subnets, i.e.
\* the cursor has not wrapped before the N-th pair was assigned.
C5_DistinctBeforeWrap ==
    C5_Capacity =>
        /\ C5_Distinct
        /\ \A i \in 1..N :
              /\ Pairs[i].server =
                     NetworkAddress(server_subnet_str) + FirstHostOffset + (i - 1)
              /\ Pairs[i].client =
                     NetworkAddress(client_subnet_str) + FirstHostOffset + (i - 1)

\* Five pairs assigned from a server subnet of exactly 5 + 11 addresses.
C5_Witness ==
    /\ C5_Capacity
    /\ N + FirstHostOffset = SubnetSize(server_subnet_str)
    /\ N >= 2
    /\ pc = "Success"

\* C6: every registry key is ordered (first <= second as strings), no two
\* entries hold the same unordered pair, the lines 'A B' and 'B A' lead to the
\* same single entry, and a line whose pair is already present adds no entry
\* and moves neither cursor.
C6_ValidLineRead ==
    /\ pos' # pos
    /\ Len(line') = 2
    /\ line'[1] <= MaxOctet
    /\ line'[2] <= MaxOctet

C6_Unordered(key) == {key[1], key[2]}

C6_CanonicalKeys ==
    /\ [](\A i \in 1..N : ~StrLess(Digits(Pairs[i].key[2]), Digits(Pairs[i].key[1])))
    /\ [](\A i, j \in 1..N :
             i # j => C6_Unordered(Pairs[i].key) # C6_Unordered(Pairs[j].key))
    /\ [][C6_ValidLineRead =>
             /\ \E i \in 1..Len(server_client_pairs') :
                   C6_Unordered(server_client_pairs'[i].key) = {line'[1], line'[2]}
             /\ (\E i \in 1..N : C6_Unordered(Pairs[i].key) = {line'[1], line'[2]})
                   => UNCHANGED <<server_client_pairs, next_server_ip, next_client_ip>>
         ]_vars

\* The reverse of an earlier line has been read and the registry holds one
\* entry, whose key is in string order and not in numeric order.
C6_Witness ==
    /\ pc = "Discovering"
    /\ line = <<10, 9>>
    /\ pos = 2
    /\ N = 1
    /\ Pairs[1].key = <<10, 9>>
    /\ next_server_ip = NetworkAddress(server_subnet_str) + FirstHostOffset + 1

\* C7: a line that has not exactly two tokens, or that holds a token that is
\* no valid address, adds no registry entry, leaves both cursors and the
\* existing entries unchanged, and the loop goes on with the next line.
C7_MalformedLineRead ==
    /\ pos' # pos
    /\ \/ Len(line') # 2
       \/ \E i \in 1..Len(line') : line'[i] > MaxOctet

C7_MalformedSkipped ==
    [][C7_MalformedLineRead =>
          /\ UNCHANGED <<server_client_pairs, next_server_ip, next_client_ip, warnings>>
          /\ pc' = "Discovering"
          /\ UNCHANGED <<files, invocations, result>>
      ]_vars

\* A line of three tokens has just been read after one pair was registered:
\* the registry still holds that one pair and the cursors are one past the start.
C7_Witness ==
    /\ pc = "Discovering"
    /\ line = <<5, 10, 9>>
    /\ N = 1
    /\ Pairs[1].key = <<10, 9>>
    /\ next_server_ip = NetworkAddress(server_subnet_str) + FirstHostOffset + 1
    /\ next_client_ip = NetworkAddress(client_subnet_str) + FirstHostOffset + 1

\* C8: when the input file is missing, a subnet does not parse or a MAC does
\* not match the pattern, the run goes from Validating to Failed, returns
\* None, invokes no external tool and changes no file: a stale output file
\* stays.  Failed is final.
C8_BadArgs ==
    \/ server_subnet_str.plen > AddrBits
    \/ client_subnet_str.plen > AddrBits
    \/ server_mac \notin {MacColon, MacHyphen}
    \/ client_mac \notin {MacColon, MacHyphen}

C8_ValidationFailure ==
    /\ [](C8_BadArgs => pc \in {"Validating", "Failed"} /\ invocations = <<>>)
    /\ [][(pc = "Validating" /\ (C8_BadArgs \/ pcap_file \notin files)) =>
             /\ pc' = "Failed"
             /\ result' = NoFile
             /\ files' = files
             /\ invocations' = <<>>
         ]_vars
    /\ [][pc # "Failed"]_vars

\* Validation failed on a short MAC alone and the stale output is still there.
C8_Witness ==
    /\ pc = "Failed"
    /\ server_mac = MacShort
    /\ client_mac = MacHyphen
    /\ server_subnet_str = Subnet16
    /\ client_subnet_str = SubnetAll
    /\ files = {pcap_file, rewritten_pcap_file}
    /\ invocations = <<>>

\* C9: tcpprep is invoked only in the modes "first" and "only"; when it fails
\* in mode "only" the run is Failed and tcpprep is the only invocation; in
\* mode "first" the step after tcpprep is the same whether it failed or not:
\* the run goes on to the discovery with nothing but the cache file differing.
C9_PrePassFailed ==
    \E i \in 1..Len(invocations) :
        invocations[i].tool = "tcpprep" /\ ~invocations[i].ok

C9_PrePass ==
    /\ [](\A i \in 1..Len(invocations) :
             invocations[i].tool = "tcpprep" =>
                 i = 1 /\ tcpprep_auto_mode \in {"first", "only"})
    /\ [](tcpprep_auto_mode = "none" => pc # "PrePass")
    /\ []((C9_PrePassFailed /\ tcpprep_auto_mode = "only") =>
             /\ pc = "Failed"
             /\ result = NoFile
             /\ Len(invocations) = 1)
    /\ [][(pc = "PrePass" /\ tcpprep_auto_mode = "first") =>
             /\ pc' = "Tshark"
             /\ UNCHANGED <<discovery, pipeline, result>>
             /\ rewritten_pcap_file \notin files'
         ]_vars

\* tcpprep failed in mode "first" and tshark was invoked after it.
C9_Witness ==
    /\ tcpprep_auto_mode = "first"
    /\ C9_PrePassFailed
    /\ pc = "Discovering"
    /\ Len(invocations) = 2
    /\ invocations[2].tool = "tshark"

\* C10: when the tshark invocation fails the run is Failed and returns None,
\* whatever the mode and the outcome of tcpprep: the registry file is not
\* written, no tcprewrite is invoked and there is no output file.
C10_DiscoveryFailure ==
    TsharkFailed =>
        /\ pc = "Failed"
        /\ result = NoFile
        /\ invocations[Len(invocations)].tool = "tshark"
        /\ RewriteInvocations = <<>>
        /\ pairs_file \notin files
        /\ rewritten_pcap_file \notin files
        /\ Pairs = <<>>

\* tshark failed after a successful tcpprep.
C10_Witness ==
    /\ TsharkFailed
    /\ Len(invocations) = 2
    /\ invocations[1].tool = "tcpprep"
    /\ invocations[1].ok
    /\ pc = "Failed"

\* C11: a tcprewrite that exits non-zero ends the run in Failed at once:
\* None is returned, no file is deleted or renamed (the input of the failed
\* pass is still there), the registry is unchanged (the pair in progress stays
\* unprocessed), processed_count is unchanged, there is no output file, and
\* no step follows.
C11_RewriteFailedStep ==
    /\ Len(invocations') = Len(invocations) + 1
    /\ invocations'[Len(invocations')].tool = "tcprewrite"
    /\ ~invocations'[Len(invocations')].ok

C11_RewriteFailure ==
    /\ [][C11_RewriteFailedStep =>
             /\ pc' = "Failed"
             /\ result' = NoFile
             /\ files \subseteq files'
             /\ invocations'[Len(invocations')].infile \in files'
             /\ rewritten_pcap_file \notin files'
             /\ UNCHANGED <<server_client_pairs, processed_count, current_input_file>>
             /\ ~server_client_pairs'[pair_idx].processed
         ]_vars
    /\ [][pc # "Failed"]_vars
    /\ []((\E i \in 1..Len(invocations) :
              invocations[i].tool = "tcprewrite" /\ ~invocations[i].ok) =>
             /\ pc = "Failed"
             /\ ~invocations[Len(invocations)].ok
             /\ rewritten_pcap_file \notin files)

\* The third pass of the second pair failed: its input, a temporary file, is
\* still there, one pair is processed and the second is not.
C11_Witness ==
    /\ pc = "Failed"
    /\ Len(RewriteInvocations) = 7
    /\ ~invocations[Len(invocations)].ok
    /\ invocations[Len(invocations)].infile = TempFile(1, 5)
    /\ TempFile(1, 5) \in files
    /\ processed_count = 1
    /\ Pairs[1].processed
    /\ ~Pairs[2].processed

\* C12: a run that passes validation leaves no file at the output name before
\* it invokes a tool: from the end of the validation until Success there is no
\* file at the output name, and the file there at Success is the one this run
\* renamed to it.
C12_StaleOutputRemoved ==
    /\ [][(pc = "Validating" /\ pc' # "Failed") => rewritten_pcap_file \notin files']_vars
    /\ []((pc \notin {"Validating", "Failed", "Success"} \/ invocations # <<>>)
             /\ pc # "Success" => rewritten_pcap_file \notin files)
    /\ [][(pc # "Success" /\ pc' = "Success") =>
             /\ rewritten_pcap_file \notin files
             /\ current_input_file \in files
             /\ files' = (files \ {current_input_file}) \cup {rewritten_pcap_file}
             /\ result' = rewritten_pcap_file
         ]_vars

\* Success after two pairs: the output is the last temporary file, renamed.
C12_Witness ==
    /\ pc = "Success"
    /\ N = 2
    /\ current_input_file = TempFile(1, 7)
    /\ TempFile(1, 7) \notin files
    /\ rewritten_pcap_file \in files

\* C13: whether or not the registry file could be written, the step after
\* the discovery leads to Rewriting with the registry unchanged, and the
\* rewrite invocations issued are those the registry alone determines: the
\* k-th one is pass ((k-1) mod 4)+1 of entry ((k-1) div 4)+1, reading the
\* output of the (k-1)-th.
C13_ExpectedRewrite(k) ==
    LET entry == Pairs[((k - 1) \div 4) + 1]
        p == Passes[((k - 1) % 4) + 1]
    IN  [tool |-> "tcprewrite",
         infile |-> IF k = 1 THEN pcap_file ELSE TempFile((k - 2) \div 4, k - 2),
         outfile |-> TempFile((k - 1) \div 4, k - 1),
         field |-> p.field,
         orig |-> IF p.role = "server" THEN OriginalServer(entry.key)
                                       ELSE OriginalClient(entry.key),
         new |-> IF p.role = "server" THEN entry.server ELSE entry.client,
         cache |-> tcpprep_cache_file]

C13_SameRewrites ==
    /\ Len(RewriteInvocations) <= 4 * N
    /\ \A k \in 1..Len(RewriteInvocations) :
          LET v == RewriteInvocations[k]
          IN  [tool |-> v.tool, infile |-> v.infile, outfile |-> v.outfile,
               field |-> v.field, orig |-> v.orig, new |-> v.new,
               cache |-> v.cache] = C13_ExpectedRewrite(k)

C13_PersistFailureIgnored ==
    /\ [][(pc = "Discovering" /\ pc' \notin {"Discovering", "Crashed"}) =>
             /\ pc' = "Rewriting"
             /\ files' \in {files, files \cup {pairs_file}}
             /\ UNCHANGED <<server_client_pairs, next_server_ip, next_client_ip,
                            invocations, result>>
         ]_vars
    /\ [](pairs_file \notin files => C13_SameRewrites)
    /\ [](pairs_file \in files => C13_SameRewrites)
    /\ []((pc = "Success" /\ pairs_file \notin files) =>
             Len(RewriteInvocations) = 4 * N)

\* The registry file was not written and both pairs were rewritten.
C13_Witness ==
    /\ pc = "Success"
    /\ pairs_file \notin files
    /\ N = 2
    /\ Len(RewriteInvocations) = 8

\* C14: every run ends in exactly one of Success and Failed (a state that is
\* neither has a next step); Success returns the output file name, and only
\* with every registry entry processed; Failed returns None; the phases are
\* passed in the order Validating, PrePass, Discovering, Persisting,
\* Rewriting, Finalizing, and Rewriting or Finalizing is entered from
\* Discovering through the registry dump only.
C14_Phase ==
    CASE pc = "Validating" -> 1
      [] pc = "PrePass" -> 2
      [] pc \in {"Tshark", "Discovering"} -> 3
      [] pc = "Rewriting" /\ pair_idx <= N -> 5
      [] pc = "Rewriting" /\ pair_idx > N -> 6
      [] OTHER -> 7

C14_RunsToSuccessOrFailed ==
    /\ [](pc \in {"Success", "Failed"} \/ ENABLED Next)
    /\ [](pc = "Success" =>
             /\ result = rewritten_pcap_file
             /\ \A i \in 1..N : Pairs[i].processed)
    /\ [](pc = "Failed" => result = NoFile)
    /\ [][/\ C14_Phase' >= C14_Phase
          /\ C14_Phase # 7
          /\ C14_Phase' = 2 => C14_Phase = 1
          /\ (C14_Phase' \in {5, 6} /\ C14_Phase \notin {5, 6}) => C14_Phase = 3
          /\ pc' = "Success" => C14_Phase = 6
         ]_vars

\* The temporary files on disk.
C15_TempFiles == {f \in files : f[1] = "temp"}

\* C15: during Rewriting every rewrite step reads the file the previous
\* successful step wrote (the input capture for the first step); after a
\* successful step and its clean-up exactly one temporary file is on disk,
\* the one just written; after Success with at least one pair no temporary
\* file is left.
C15_TempFileChain ==
    /\ \A k \in 1..Len(RewriteInvocations) :
          RewriteInvocations[k].infile =
              IF k = 1 THEN pcap_file ELSE RewriteInvocations[k - 1].outfile
    /\ \A k \in 1..(Len(RewriteInvocations) - 1) : RewriteInvocations[k].ok
    /\ (pc = "Rewriting" /\ Len(RewriteInvocations) >= 1) =>
          /\ C15_TempFiles = {RewriteInvocations[Len(RewriteInvocations)].outfile}
          /\ current_input_file = RewriteInvocations[Len(RewriteInvocations)].outfile
    /\ (pc = "Rewriting" /\ Len(RewriteInvocations) = 0) =>
          (C15_TempFiles = {} /\ current_input_file = pcap_file)
    /\ (pc = "Success" /\ N >= 1) => C15_TempFiles = {}

\* The first pass of the second pair has run: its input, the last file of
\* the first pair, is gone and its output is the one temporary file.
C15_Witness ==
    /\ pc = "Rewriting"
    /\ N >= 2
    /\ Len(RewriteInvocations) = Len(Passes) + 1
    /\ RewriteInvocations[Len(Passes) + 1].infile = TempFile(0, Len(Passes) - 1)
    /\ C15_TempFiles = {TempFile(1, Len(Passes))}

\* C16: the step counter grows by one with each rewrite invocation and is
\* never reset, so no two rewrite invocations of a run get the same output
\* file name, and no invocation's output name is its input name.
C16_UniqueTempNames ==
    /\ [](/\ rewrite_step = Len(RewriteInvocations)
          /\ \A j, k \in 1..Len(RewriteInvocations) :
                j # k => RewriteInvocations[j].outfile # RewriteInvocations[k].outfile
          /\ \A k \in 1..Len(RewriteInvocations) :
                RewriteInvocations[k].outfile # RewriteInvocations[k].infile)
    /\ [][/\ rewrite_step' >= rewrite_step
          /\ (invocations' # invocations /\ pc = "Rewriting")
                => (rewrite_step' = rewrite_step + 1)
         ]_vars

\* Two pairs were rewritten: eight invocations, the counter at eight.
C16_Witness ==
    /\ pc = "Success"
    /\ N = 2
    /\ rewrite_step = 2 * Len(Passes)
    /\ Len(RewriteInvocations) = 2 * Len(Passes)

\* The keys and the assigned addresses of the registry, without the flags.
C17_Assignments ==
    [i \in 1..N |-> <<Pairs[i].key, Pairs[i].server, Pairs[i].client>>]

\* The registry entries whose flag is set.
C17_Processed == {i \in 1..N : Pairs[i].processed}

\* C17: an entry is created with processed = false; the flag is set only
\* after the entry's four rewrite invocations succeeded and is never cleared;
\* the processed-pair counter is the number of set flags; keys and assigned
\* addresses do not change after discovery; at Success every flag is set and
\* exactly 4 x (number of entries) rewrite invocations were issued.
C17_ProcessedFlags ==
    /\ [](pc \in {"Validating", "PrePass", "Tshark", "Discovering"}
            => C17_Processed = {})
    /\ [](\A i \in C17_Processed :
            /\ Len(RewriteInvocations) >= Len(Passes) * i
            /\ \A p \in 1..Len(Passes) :
                  LET v == RewriteInvocations[Len(Passes) * (i - 1) + p]
                  IN  /\ v.ok
                      /\ v.orig \in {Pairs[i].key[1], Pairs[i].key[2]}
                      /\ v.new \in {Pairs[i].server, Pairs[i].client})
    /\ [](processed_count = Cardinality(C17_Processed))
    /\ [](pc = "Success" =>
            /\ C17_Processed = 1..N
            /\ Len(RewriteInvocations) = Len(Passes) * N)
    /\ [][/\ C17_Processed \subseteq C17_Processed'
          /\ \A i \in (1..N') \ (1..N) : ~Pairs'[i].processed
          /\ pc \in {"Rewriting", "Success", "Failed"}
                => (C17_Assignments' = C17_Assignments)
         ]_vars

\* Success after two pairs: both flags set, eight rewrite invocations.
C17_Witness ==
    /\ pc = "Success"
    /\ N = 2
    /\ processed_count = 2
    /\ C17_Processed = {1, 2}
    /\ Len(RewriteInvocations) = 2 * Len(Passes)

\* C18: a pair is assigned a server (client) address that an earlier pair
\* already received only after the exhaustion warning for the server
\* (client) subnet was emitted.
C18_ReuseOnlyAfterWarning ==
    /\ (\E i, j \in 1..N : i < j /\ Pairs[i].server = Pairs[j].server)
          => "server" \in warnings
    /\ (\E i, j \in 1..N : i < j /\ Pairs[i].client = Pairs[j].client)
          => "client" \in warnings

\* The pre-pass of this run produced the cache file.
C19_PrePassSucceeded ==
    \E i \in 1..Len(invocations) :
        invocations[i].tool = "tcpprep" /\ invocations[i].ok

\* C19: every rewrite invocation of a run gets the same cache file, and a
\* cache file only if the pre-pass of this run produced it: with mode "none"
\* or after a failed pre-pass no rewrite invocation gets a cache file.
C19_CacheOnlyFromThisRun ==
    /\ \A j, k \in 1..Len(RewriteInvocations) :
          RewriteInvocations[j].cache = RewriteInvocations[k].cache
    /\ ~C19_PrePassSucceeded =>
          \A k \in 1..Len(RewriteInvocations) : RewriteInvocations[k].cache = NoFile

\* A packet <<src, dst>> after one successful rewrite invocation: the mapped
\* address is replaced in the field the invocation names.
C20_Apply(pkt, v) ==
    IF v.field = "src" /\ pkt[1] = v.orig THEN <<v.new, pkt[2]>>
    ELSE IF v.field = "dst" /\ pkt[2] = v.orig THEN <<pkt[1], v.new>>
    ELSE pkt

\* A packet after the first k rewrite invocations of the run.
RECURSIVE C20_Output(_, _)
C20_Output(pkt, k) ==
    IF k = 0 THEN pkt
    ELSE C20_Apply(C20_Output(pkt, k - 1), RewriteInvocations[k])

\* What the registry entry e promises for an address of its key.
C20_Mapped(e, ip) == IF ip = e.key[1] THEN e.server ELSE e.client

\* No assigned address is an original address.
C20_NewAddressesFresh ==
    \A i, j \in 1..N :
        {Pairs[i].server, Pairs[i].client} \cap {Pairs[j].key[1], Pairs[j].key[2]} = {}

\* C20: after Success with no assigned address equal to an original one, a
\* packet between the two addresses of a registry key carries in the output
\* the entry's new server address for the key's first address and the
\* entry's new client address for the key's second one, also when an
\* original address belongs to several keys.  The packet looked at is the
\* last line tshark printed, a packet of the capture between two different
\* addresses.
C20_PacketsRewritten ==
    (/\ pc = "Success"
     /\ C20_NewAddressesFresh
     /\ Len(line) = 2
     /\ line[1] # line[2])
    => \A i \in 1..N :
          Pairs[i].key = PairKey(line[1], line[2]) =>
             C20_Output(line, Len(RewriteInvocations)) =
                 <<C20_Mapped(Pairs[i], line[1]), C20_Mapped(Pairs[i], line[2])>>

====
